---------------------------- MODULE Spec2Model ----------------------------
(***************************************************************************)
(* dask-match: expression nodes, lazy rule registration (_ExprMeta), the   *)
(* rewrite rules of core.py and io/parquet.py, the fixed-point optimizer   *)
(* (optimize / matchpy.replace_all) and the task-graph traversal           *)
(* (Expr.__dask_graph__).                                                  *)
(*                                                                         *)
(* Python values are tagged tuples: <<"None">>, <<"Num", n>>,              *)
(* <<"Str", s>>, <<"List", seq>>, <<"Tuple", seq>>, <<"Frame", id, rows>>  *)
(* (a pandas object, compared by identity) and, for an expression node,    *)
(* <<kind, operands>>.  ReadParquet carries its first three operands       *)
(* (path, columns, filters); the thirteen others stay at their defaults,   *)
(* which is what every pattern and every replacement of parquet.py fixes.  *)
(***************************************************************************)
EXTENDS Integers, Sequences, FiniteSets, TLC

VARIABLES
    seen,               \* _ExprMeta.seen
    replacement_rules,  \* the global catalog, in registration order
    called,             \* history: kinds constructed by user code or a rewrite
    made,               \* history: outcome of each user-level construction
    asked,              \* history: <<cls, args, kwargs>> of each call below
    defer,              \* _defer_to_matchpy
    pc,                 \* control point of the caller of optimize
    input,              \* the tree handed to the first optimize call
    expr,               \* optimize: local expr
    last,               \* optimize: local last
    rules,              \* replace_all: its private copy of the catalog
    calls,              \* number of optimize calls started
    ret,                \* outcome of each finished optimize call
    fired,              \* history: <<rule, redex, replacement>> of the last match
    groot,              \* the collection whose graph / divisions are requested
    stack,              \* __dask_graph__: stack
    gseen,              \* __dask_graph__: seen
    layers,             \* __dask_graph__: layers
    gpc,                \* control point of __dask_graph__
    graph,              \* what __dask_graph__ returned
    divres,             \* outcome of the last access to groot.divisions
    th                  \* per thread: the locals of its optimize call

regVars == <<seen, replacement_rules, called, made, asked>>
optVars == <<defer, pc, input, expr, last, rules, calls, ret, fired>>
graphVars == <<groot, stack, gseen, layers, gpc, graph, divres>>
thrVars == <<th>>
vars == <<seen, replacement_rules, called, made, asked, defer, pc, input,
          expr, last, rules, calls, ret, fired, groot, stack, gseen, layers,
          gpc, graph, divres, th>>

----------------------------------------------------------------------------
(* Values *)

None == <<"None">>
Num(n) == <<"Num", n>>
Str(s) == <<"Str", s>>
List(s) == <<"List", s>>
Tuple(s) == <<"Tuple", s>>
Frame(id, rows) == <<"Frame", id, rows>>
Node(kind, operands) == <<kind, operands>>

Compare == <<"LE", "LT", "GE", "GT", "EQ", "NE">>
CompareKinds == {Compare[i] : i \in 1..Len(Compare)}
BinopKinds == {"Add", "Sub", "Mul", "Div"} \cup CompareKinds
IOKinds == {"from_pandas", "ReadParquet"}
Kinds == IOKinds \cup {"Filter", "Projection"} \cup BinopKinds

IsExpr(v) == v[1] \in Kinds
IsNumber(v) == v[1] = "Num"
Kind(e) == e[1]
Operands(e) == e[2]

_parameters(cls) ==
    CASE cls = "from_pandas" -> <<"frame", "npartitions">>
      [] cls = "ReadParquet" -> <<"path", "columns", "filters">>
      [] cls = "Filter" -> <<"frame", "predicate">>
      [] cls = "Projection" -> <<"frame", "columns">>
      [] OTHER -> <<"left", "right">>

_operator_repr(cls) ==
    CASE cls = "Add" -> "+"
      [] cls = "Sub" -> "-"
      [] cls = "Mul" -> "*"
      [] cls = "Div" -> "/"
      [] cls = "LT" -> "<"
      [] cls = "LE" -> "<="
      [] cls = "GT" -> ">"
      [] cls = "GE" -> ">="
      [] cls = "EQ" -> "=="
      [] cls = "NE" -> "!="

----------------------------------------------------------------------------
(* Rule registration: _ExprMeta.__call__ and the _replacement_rules        *)
(* providers.  A provider is the sequence of what its generator does       *)
(* before it is exhausted: <<"new", K>> constructs a node of kind K (the   *)
(* patterns are built from real nodes), <<"yield", rule, cls>> hands one   *)
(* rule to the registration loop.                                          *)

New(cls) == <<"new", cls>>
Yield(rule, cls) == <<"yield", rule, cls>>

BinopProvider(cls) == <<New(cls), New("Projection"), Yield("BinopProj", cls)>>

FilterProvider == <<New("Filter"), New("Projection"), Yield("FilterReorder", "Filter")>>

AddProvider == <<New("Add"), Yield("SelfAdd", "Add")>> \o BinopProvider("Add")

MulProvider == <<New("Mul"), New("Mul"), Yield("MulFold", "Mul")>> \o BinopProvider("Mul")

PredicateProvider(op) ==
    <<New("ReadParquet"), New("ReadParquet"), New("Projection"), New(op),
      New("Filter"), Yield("RPPred1", op),
      New("ReadParquet"), New("ReadParquet"), New("Projection"), New(op),
      New("Filter"), Yield("RPPred2", op),
      New("ReadParquet"), New("ReadParquet"), New(op),
      New("Filter"), Yield("RPPred3", op),
      New("ReadParquet"), New("ReadParquet"), New(op),
      New("Filter"), Yield("RPPred4", op)>>

RECURSIVE PredicateProviders(_)
PredicateProviders(i) ==
    IF i > Len(Compare) THEN <<>>
    ELSE PredicateProvider(Compare[i]) \o PredicateProviders(i + 1)

ReadParquetProvider ==
    <<New("ReadParquet"), New("Projection"), Yield("RPCol", "ReadParquet")>>
        \o PredicateProviders(1)

_replacement_rules(cls) ==
    CASE cls = "Filter" -> FilterProvider
      [] cls = "Add" -> AddProvider
      [] cls = "Mul" -> MulProvider
      [] cls = "ReadParquet" -> ReadParquetProvider
      [] cls \in BinopKinds \ {"Add", "Mul"} -> BinopProvider(cls)
      [] OTHER -> <<>>

\* A slip that keys the seen-set by the provider function instead of the
\* class: Sub, Div and the comparisons all inherit Binop's provider.
SeenKeyByProvider(cls) ==
    IF cls \in BinopKinds \ {"Add", "Mul"} THEN "Binop" ELSE cls

\* The key under which a class is remembered in _ExprMeta.seen: the class.
SeenKey(cls) == cls

RECURSIVE Register(_, _), Collect(_, _)
\* Lines 44-47: the first call of a class adds it to seen, then appends
\* every rule its provider yields; the provider's own constructions run
\* in between, each through the same code.
Register(cls, reg) ==
    IF SeenKey(cls) \in reg.seen THEN reg
    ELSE Collect(_replacement_rules(cls),
                 [reg EXCEPT !.seen = @ \cup {SeenKey(cls)}])

Collect(events, reg) ==
    IF events = <<>> THEN reg
    ELSE IF Len(events) = 1
         THEN LET ev == events[1]
              IN IF ev[1] = "new" THEN Register(ev[2], reg)
                 ELSE [reg EXCEPT !.rules = Append(@, <<ev[2], ev[3]>>)]
    ELSE LET half == Len(events) \div 2
             mid == Collect(SubSeq(events, 1, half), reg)
         IN \* the comparison has TLC finish the first half before the second
            IF mid = reg THEN Collect(SubSeq(events, half + 1, Len(events)), reg)
            ELSE Collect(SubSeq(events, half + 1, Len(events)), mid)

\* Construction of every node of a tree, operands first (Python evaluates
\* the arguments of a call before the call).
RECURSIVE RegisterTree(_, _), RegisterEach(_, _)
RegisterTree(v, reg) ==
    IF IsExpr(v) THEN Register(Kind(v), RegisterEach(Operands(v), reg))
    ELSE reg

RegisterEach(vs, reg) ==
    IF vs = <<>> THEN reg
    ELSE RegisterEach(Tail(vs), RegisterTree(Head(vs), reg))

EmptyRegistry == [seen |-> {}, rules |-> <<>>]

----------------------------------------------------------------------------
(* Node construction by the user-facing operators *)

Projection(frame, columns) == Node("Projection", <<frame, columns>>)
Filter(frame, predicate) == Node("Filter", <<frame, predicate>>)
Binop(cls, left, right) == Node(cls, <<left, right>>)
Add(left, right) == Binop("Add", left, right)
Mul(left, right) == Binop("Mul", left, right)
ReadParquet(path, columns, filters) == Node("ReadParquet", <<path, columns, filters>>)
from_pandas(frame, npartitions) == Node("from_pandas", <<frame, Num(npartitions)>>)

\* Expr.__getitem__: an expression selects rows, anything else columns.
GetItem(self, other) ==
    IF IsExpr(other) THEN Filter(self, other) ELSE Projection(self, other)

\* Expr.__eq__ / Expr.__ne__ outside matching: the operands are swapped.
ExprEq(self, other) == Binop("EQ", other, self)
ExprNe(self, other) == Binop("NE", other, self)

\* self != other as the matcher evaluates it for a wildcard bound twice.
\* With the flag set it is matchpy's structural comparison; without it, an
\* expression answers with an NE node, which Python takes for true.
Differs(flag, self, other) ==
    IF IsExpr(self) /\ ~flag THEN TRUE ELSE self # other

\* parquet._list_columns
_list_columns(columns) ==
    CASE columns[1] \in {"Str", "Num"} -> List(<<columns>>)
      [] columns[1] = "Tuple" -> List(columns[2])
      [] OTHER -> columns

----------------------------------------------------------------------------
(* str() and repr() of values and expressions.  The column names, paths    *)
(* and operator symbols of the model hold no blank.                        *)

RECURSIVE Join(_, _)
Join(ss, sep) ==
    IF ss = <<>> THEN ""
    ELSE IF Len(ss) = 1 THEN ss[1]
    ELSE ss[1] \o sep \o Join(Tail(ss), sep)

\* Whether a default-printed operand is shown: operand != _defaults.get(param)
Shown(cls, v) == IF cls = "ReadParquet" THEN v # None ELSE TRUE

RECURSIVE PyStr(_), PyRepr(_), HasSpace(_)
PyRepr(v) ==
    IF v[1] = "Str" THEN "'" \o v[2] \o "'" ELSE PyStr(v)

PyStr(v) ==
    CASE v[1] = "None" -> "None"
      [] v[1] = "Num" -> ToString(v[2])
      [] v[1] = "Str" -> v[2]
      [] v[1] = "Frame" -> v[2]
      [] v[1] = "List" ->
            "[" \o Join([i \in 1..Len(v[2]) |-> PyRepr(v[2][i])], ", ") \o "]"
      [] v[1] = "Tuple" ->
            "(" \o Join([i \in 1..Len(v[2]) |-> PyRepr(v[2][i])], ", ")
                \o (IF Len(v[2]) = 1 THEN "," ELSE "") \o ")"
      [] v[1] = "from_pandas" -> "df"
      [] v[1] = "Projection" ->
            (IF HasSpace(v[2][1]) THEN "(" \o PyStr(v[2][1]) \o ")"
             ELSE PyStr(v[2][1]))
                \o "[" \o PyRepr(v[2][2]) \o "]"
      [] v[1] \in BinopKinds ->
            PyStr(v[2][1]) \o " " \o _operator_repr(v[1]) \o " " \o PyStr(v[2][2])
      [] OTHER ->
            LET ps == _parameters(v[1])
                shown == SelectSeq([i \in 1..Len(ps) |-> i],
                                   LAMBDA i : Shown(v[1], v[2][i]))
            IN v[1] \o "("
                 \o Join([k \in 1..Len(shown) |->
                            ps[shown[k]] \o "=" \o PyStr(v[2][shown[k]])], ", ")
                 \o ")"

\* " " in str(v)
HasSpace(v) ==
    CASE v[1] \in {"None", "Num", "Str", "Frame", "from_pandas"} -> FALSE
      [] v[1] \in {"List", "Tuple"} ->
            Len(v[2]) > 1 \/ \E i \in 1..Len(v[2]) : HasSpace(v[2][i])
      [] v[1] = "Projection" -> HasSpace(v[2][1]) \/ HasSpace(v[2][2])
      [] v[1] \in BinopKinds -> TRUE
      [] OTHER ->
            Cardinality({i \in 1..Len(v[2]) : Shown(v[1], v[2][i])}) > 1
                \/ \E i \in 1..Len(v[2]) : Shown(v[1], v[2][i]) /\ HasSpace(v[2][i])

----------------------------------------------------------------------------
(* Positions of a tree, as matchpy's preorder_iter_with_position walks     *)
(* them: a node, then the expressions among its operands, left to right.   *)

RECURSIVE Preorder(_), PreorderFrom(_, _)
Preorder(e) == <<<<>>>> \o PreorderFrom(e, 1)

PreorderFrom(e, i) ==
    IF i > Len(Operands(e)) THEN <<>>
    ELSE (IF IsExpr(Operands(e)[i])
          THEN LET sub == Preorder(Operands(e)[i])
               IN [k \in 1..Len(sub) |-> <<i>> \o sub[k]]
          ELSE <<>>) \o PreorderFrom(e, i + 1)

RECURSIVE At(_, _)
At(e, pos) == IF pos = <<>> THEN e ELSE At(Operands(e)[Head(pos)], Tail(pos))

\* matchpy.functions.replace: the ancestors of the position are rebuilt.
RECURSIVE ReplaceAt(_, _, _)
ReplaceAt(e, pos, new) ==
    IF pos = <<>> THEN new
    ELSE Node(Kind(e),
              [Operands(e) EXCEPT ![Head(pos)] = ReplaceAt(@, Tail(pos), new)])

----------------------------------------------------------------------------
(* The rules.  A rule of the catalog is <<name, cls>>.  Matches(flag, r, e) *)
(* is matchpy's one-to-one match of r's pattern against the expression e   *)
(* (flag is _defer_to_matchpy at that moment); Replacement(r, e) is what   *)
(* r's rewrite function returns for the bindings of that match, or         *)
(* Raise(..) when it raises.                                               *)

Raise(what) == <<"Raise", what>>
Raised(v) == v[1] = "Raise"

\* parquet.py line 95
flip_op(op) ==
    CASE op = "LE" -> "GE"
      [] op = "LT" -> "GT"
      [] op = "GE" -> "LE"
      [] op = "GT" -> "LT"
      [] OTHER -> op

IsRead(v) == v[1] = "ReadParquet"
IsProjectedRead(v) == v[1] = "Projection" /\ IsRead(v[2][1])

\* c or []
OrEmptyList(c) ==
    IF c = None \/ (c[1] \in {"List", "Tuple"} /\ c[2] = <<>>) THEN List(<<>>) ELSE c

\* A slip that puts the new triple in front of the existing filters.
predicate_pushdown_prepend(a, b, c, d, e, op) ==
    LET old == OrEmptyList(c)
    IN IF old[1] # "List" THEN Raise("TypeError")
       ELSE ReadParquet(a, _list_columns(b),
                        List(<<Tuple(<<d, Str(_operator_repr(op)), e>>)>> \o old[2]))

\* parquet.py predicate_pushdown (the same body four times): list + list
\* concatenates, anything else + list is a TypeError.
predicate_pushdown(a, b, c, d, e, op) ==
    LET old == OrEmptyList(c)
    IN IF old[1] # "List" THEN Raise("TypeError")
       ELSE ReadParquet(a, _list_columns(b),
                        List(old[2] \o <<Tuple(<<d, Str(_operator_repr(op)), e>>)>>))

\* The operator a pushdown variant records: variants 2 and 4 (literal on
\* the left) are registered with partial(..., op=flip_op.get(op, op)).
PushdownOp(name, op) ==
    IF name \in {"RPPred2", "RPPred4"} THEN flip_op(op) ELSE op

\* Filter(ReadParquet(a, columns=b, filters=c), <comparison>)
MatchesPushdown(name, op, e) ==
    /\ Kind(e) = "Filter"
    /\ IsRead(e[2][1])
    /\ e[2][2][1] = op
    /\ LET a == e[2][1][2][1]
           l == e[2][2][2][1]
           r == e[2][2][2][2]
       IN CASE name = "RPPred1" -> IsProjectedRead(l) /\ l[2][1][2][1] = a
            [] name = "RPPred2" -> IsProjectedRead(r) /\ r[2][1][2][1] = a
            [] name = "RPPred3" -> IsRead(l) /\ l[2][1] = a /\ l[2][2][1] = "Str"
            [] name = "RPPred4" -> IsRead(r) /\ r[2][1] = a /\ r[2][2][1] = "Str"

Pushdown(name, op, e) ==
    LET a == e[2][1][2][1]
        b == e[2][1][2][2]
        c == e[2][1][2][3]
        l == e[2][2][2][1]
        r == e[2][2][2][2]
        rec == PushdownOp(name, op)
    IN CASE name = "RPPred1" -> predicate_pushdown(a, b, c, l[2][2], r, rec)
         [] name = "RPPred2" -> predicate_pushdown(a, b, c, r[2][2], l, rec)
         [] name = "RPPred3" -> predicate_pushdown(a, b, c, l[2][2], r, rec)
         [] name = "RPPred4" -> predicate_pushdown(a, b, c, r[2][2], l, rec)

\* Binop._replacement_rules: transform
transform(left, right, columns, cls) ==
    Binop(cls,
          IF IsExpr(left) THEN GetItem(left, columns) ELSE left,
          IF IsExpr(right) THEN GetItem(right, columns) ELSE right)

\* A slip that drops the column selection of the reorder rule.
FilterReorderDropsColumns(df, condition, columns) == GetItem(df, condition)

\* Filter._replacement_rules: lambda df, condition, columns
FilterReorder(df, condition, columns) == GetItem(GetItem(df, columns), condition)

\* A slip that adds the two literals instead of multiplying them.
MulFoldAdds(a, b, c) == Mul(Num(a[2] + b[2]), c)

\* Mul._replacement_rules: lambda a, b, c
MulFold(a, b, c) == Mul(Num(a[2] * b[2]), c)

\* Mul._replacement_rules: the CustomConstraint
MulFoldConstraint(a, b) == IsNumber(a) /\ IsNumber(b)

\* A slip that lets the self-addition pattern accept any two operands.
SelfAddMatchesAny(flag, e) == Kind(e) = "Add"

\* Pattern(Add(x, x)): the second binding of x must not differ from the first.
SelfAddMatches(flag, e) == Kind(e) = "Add" /\ ~Differs(flag, e[2][2], e[2][1])

\* A slip that rebuilds the sum it has matched.
SelfAddRebuilt(x) == Add(x, x)

\* Add._replacement_rules: lambda x
SelfAdd(x) == Mul(Num(2), x)

\* A slip that keeps the read's own columns when a projection is absorbed.
ColumnProjectionKeepsOld(a, b, c, d) == ReadParquet(a, b, c)

\* parquet.py line 91
ColumnProjection(a, b, c, d) == ReadParquet(a, _list_columns(d), c)

Matches(flag, r, e) ==
    CASE r[1] = "SelfAdd" -> SelfAddMatches(flag, e)
      [] r[1] = "MulFold" ->
            /\ Kind(e) = "Mul"
            /\ e[2][2][1] = "Mul"
            /\ MulFoldConstraint(e[2][1], e[2][2][2][1])
      [] r[1] = "BinopProj" -> Kind(e) = "Projection" /\ e[2][1][1] = r[2]
      [] r[1] = "FilterReorder" -> Kind(e) = "Projection" /\ e[2][1][1] = "Filter"
      [] r[1] = "RPCol" -> IsProjectedRead(e)
      [] OTHER -> MatchesPushdown(r[1], r[2], e)

Replacement(r, e) ==
    CASE r[1] = "SelfAdd" -> SelfAdd(e[2][1])
      [] r[1] = "MulFold" -> MulFold(e[2][1], e[2][2][2][1], e[2][2][2][2])
      [] r[1] = "BinopProj" -> transform(e[2][1][2][1], e[2][1][2][2], e[2][2], r[2])
      [] r[1] = "FilterReorder" -> FilterReorder(e[2][1][2][1], e[2][1][2][2], e[2][2])
      [] r[1] = "RPCol" ->
            ColumnProjection(e[2][1][2][1], e[2][1][2][2], e[2][1][2][3], e[2][2])
      [] OTHER -> Pushdown(r[1], r[2], e)

----------------------------------------------------------------------------
(* matchpy.replace_all: one iteration of its while loop looks, in preorder, *)
(* for the first sub-expression that some rule matches (rules in catalog    *)
(* order) and replaces it.                                                  *)

Least(S) == CHOOSE i \in S : \A j \in S : i <= j

\* index of the first rule of rs that matches e, 0 when none does
FirstRule(flag, rs, e) ==
    LET hits == {i \in 1..Len(rs) : Matches(flag, rs[i], e)}
    IN IF hits = {} THEN 0 ELSE Least(hits)

\* the first of the positions ps where some rule matches, with that rule
Search(flag, rs, e, ps) ==
    LET hits == {k \in 1..Len(ps) : FirstRule(flag, rs, At(e, ps[k])) # 0}
    IN IF hits = {} THEN <<>>
       ELSE LET k == Least(hits)
            IN <<ps[k], rs[FirstRule(flag, rs, At(e, ps[k]))]>>

\* A slip that tries the rules on the root only.
FirstMatchAtRoot(flag, rs, e) == Search(flag, rs, e, <<<<>>>>)

\* <<position, rule>> of the replacement the next iteration makes, <<>> when
\* no rule matches anywhere
FirstMatch(flag, rs, e) == Search(flag, rs, e, Preorder(e))

\* The expression after one iteration, or Raise(..)
ReplaceOnce(e, m) ==
    LET new == Replacement(m[2], At(e, m[1]))
    IN IF Raised(new) THEN new ELSE ReplaceAt(e, m[1], new)

\* The registry after the nodes of a replaced tree have been constructed:
\* the replacement's own nodes and the rebuilt ancestors all pass through
\* _ExprMeta.__call__.
AfterReplace(e, reg) == RegisterTree(e, reg)

RECURSIVE replace_all(_, _, _, _)
\* The whole call, for the trees a claim compares a result with:
\* [out |-> the expression returned or Raise(..), reg |-> the registry after]
replace_all(flag, e, rs, reg) ==
    LET m == FirstMatch(flag, rs, e)
    IN IF m = <<>> THEN [out |-> e, reg |-> reg]
       ELSE LET next == ReplaceOnce(e, m)
            IN IF Raised(next) THEN [out |-> next, reg |-> reg]
               ELSE replace_all(flag, next, rs, AfterReplace(next, reg))

\* The flag after optimize has left its try block without the finally
\* clause: reset on the normal path only.
FlagWithoutFinally(raised) == raised

\* The flag after optimize has left its try block (finally, line 644)
FlagAfterTry(raised) == FALSE

RECURSIVE OptimizeLoop(_, _, _)
\* optimize's while loop from the loop test on
OptimizeLoop(e, lst, reg) ==
    IF PyStr(e) = PyStr(lst) THEN e
    ELSE LET r == replace_all(TRUE, e, reg.rules, reg)
         IN IF Raised(r.out) THEN r.out ELSE OptimizeLoop(r.out, e, r.reg)

\* optimize(e) in a process whose registry is reg, once e has been built
Optimize(e, reg) == OptimizeLoop(e, None, RegisterTree(e, reg))

----------------------------------------------------------------------------
(* Bounds and the trees the optimizer is run on *)

MaxCalls == 2        \* optimize calls made one after the other
MaxLit == 3          \* numeric literals are 2..MaxLit
MaxPartitions == 2   \* npartitions of an in-memory source

Nums == {Num(n) : n \in 2..MaxLit}
ColX == Str("x")
ColY == Str("y")
ColumnLists == {List(<<ColY>>), List(<<ColX, ColY>>)}
Selections == ColumnLists \cup {ColX}

FrameA == from_pandas(Frame("A", 10), 1)
FrameB == from_pandas(Frame("B", 10), MaxPartitions)
ReadP == ReadParquet(Str("p"), None, None)
ReadQ == ReadParquet(Str("q"), None, None)
OldTriple == Tuple(<<ColY, Str("<"), Num(1)>>)

\* reads as a user may construct them: columns unset, a list, a single
\* name or a tuple; filters unset, a list or (mistakenly) a tuple
ReadVariants ==
    {ReadParquet(Str("p"), cols, flt) :
        cols \in {None, List(<<ColY>>), ColY, Tuple(<<ColX, ColY>>)},
        flt \in {None, List(<<>>), List(<<OldTriple>>), Tuple(<<OldTriple>>)}}

\* read[x] op v and v op read[x] as nodes
Comparisons(reads, lits) ==
    {Binop(op, Projection(r, ColX), v) : op \in CompareKinds, r \in reads, v \in lits}
        \cup {Binop(op, v, Projection(r, ColX)) : op \in CompareKinds, r \in reads, v \in lits}

\* expr op v as the Python operators build it: == and != swap the operands
UserCompare(op, e, v) ==
    CASE op = "EQ" -> ExprEq(e, v)
      [] op = "NE" -> ExprNe(e, v)
      [] OTHER -> Binop(op, e, v)

\* read[read[x] op v][cols]
PushdownInputs ==
    {GetItem(GetItem(r, UserCompare(op, GetItem(r, x), v)), cols) :
        r \in {ReadP, ReadQ}, op \in CompareKinds, x \in {ColX, ColY},
        v \in Nums, cols \in Selections}

\* Filter(read, comparison), the comparison on a read of the same or of
\* another path, and single-column reads compared directly
FilterInputs ==
    {Filter(r, c) : r \in ReadVariants, c \in Comparisons({ReadP, ReadQ}, {Num(MaxLit)})}
        \cup {Filter(ReadP, Binop(op, ReadParquet(Str("p"), ColX, None), Num(MaxLit))) :
                op \in CompareKinds}
        \cup {Filter(ReadP, Binop(op, Num(MaxLit), ReadParquet(Str("p"), ColX, None))) :
                op \in CompareKinds}

\* read[c1][c2]
NestedFilterInputs ==
    {Filter(Filter(r, c1), c2) :
        r \in {ReadP, ReadParquet(Str("p"), List(<<ColY>>), List(<<OldTriple>>))},
        c1 \in Comparisons({ReadP}, {Num(2)}),
        c2 \in Comparisons({ReadP}, {Num(MaxLit)})}

Sources == {FrameA, FrameB, ReadP}

Grow(S) ==
    S \cup {Add(a, b) : a \in S, b \in S}
      \cup {Mul(a, b) : a \in S \cup Nums, b \in S}
      \cup {GetItem(a, List(<<ColY>>)) : a \in S}

Arith1 == Grow(Sources)
ArithInputs == Grow(Arith1)

\* a * (b * c)
NestedMulInputs ==
    {Mul(a, Mul(b, c)) : a \in Nums \cup {FrameA}, b \in Nums \cup {FrameA},
                         c \in Arith1 \cup Nums}

\* Filter(df, cond)[cols]
ReorderInputs ==
    {GetItem(Filter(df, cond), cols) :
        df \in Arith1,
        cond \in {Binop("GT", Projection(FrameA, ColX), Num(2)),
                  ExprEq(Projection(ReadP, ColX), Num(2)),
                  Binop("LT", FrameB, FrameA)},
        cols \in Selections}

Inputs ==
    PushdownInputs \cup FilterInputs \cup NestedFilterInputs \cup ArithInputs
        \cup NestedMulInputs \cup ReorderInputs

----------------------------------------------------------------------------
(* The optimizer: optimize (core.py 620-645) around matchpy.replace_all.   *)
(* While replace_all runs, expr holds its local expression; optimize's     *)
(* own expr is assigned when it returns.                                   *)

Registry == [seen |-> seen, rules |-> replacement_rules]

\* the kinds of the nodes of a tree
KindsOf(e) == {At(e, Preorder(e)[k])[1] : k \in 1..Len(Preorder(e))}

SetRegistry(reg, kinds) ==
    /\ seen' = reg.seen
    /\ replacement_rules' = reg.rules
    /\ called' = called \cup kinds

\* lines 635-639: the call, on the input or on the previous result
OptimizeCall ==
    /\ pc = "idle"
    /\ calls < MaxCalls
    /\ calls > 0 => ~Raised(ret[calls])
    /\ expr' = IF calls = 0 THEN input ELSE ret[calls]
    /\ last' = None
    /\ defer' = TRUE
    /\ calls' = calls + 1
    /\ pc' = "test"
    /\ UNCHANGED <<input, rules, ret, fired>>
    /\ UNCHANGED regVars /\ UNCHANGED graphVars /\ UNCHANGED thrVars

\* lines 640-642: the loop test succeeds, replace_all copies the catalog
EnterPass ==
    /\ pc = "test"
    /\ PyStr(expr) # PyStr(last)
    /\ last' = expr
    /\ rules' = replacement_rules
    /\ pc' = "replacing"
    /\ UNCHANGED <<defer, input, expr, calls, ret, fired>>
    /\ UNCHANGED regVars /\ UNCHANGED graphVars /\ UNCHANGED thrVars

\* replace_all: one replacement
Replace ==
    /\ pc = "replacing"
    /\ LET m == FirstMatch(defer, rules, expr)
       IN /\ m # <<>>
          /\ ~Raised(ReplaceOnce(expr, m))
          /\ expr' = ReplaceOnce(expr, m)
          /\ fired' = <<m[2], At(expr, m[1]), Replacement(m[2], At(expr, m[1]))>>
          /\ SetRegistry(AfterReplace(ReplaceOnce(expr, m), Registry),
                         KindsOf(ReplaceOnce(expr, m)))
    /\ UNCHANGED <<made, asked, defer, pc, input, last, rules, calls, ret>>
    /\ UNCHANGED graphVars /\ UNCHANGED thrVars

\* replace_all: the rewrite function raises; optimize's finally clause runs
\* and the exception leaves optimize
RewriteRaises ==
    /\ pc = "replacing"
    /\ LET m == FirstMatch(defer, rules, expr)
       IN /\ m # <<>>
          /\ Raised(ReplaceOnce(expr, m))
          /\ ret' = Append(ret, ReplaceOnce(expr, m))
          /\ fired' = <<m[2], At(expr, m[1]), Replacement(m[2], At(expr, m[1]))>>
    /\ defer' = FlagAfterTry(TRUE)
    /\ pc' = "idle"
    /\ UNCHANGED <<input, expr, last, rules, calls>>
    /\ UNCHANGED regVars /\ UNCHANGED graphVars /\ UNCHANGED thrVars

\* the matcher itself raises (any exception out of matchpy)
MatcherRaises ==
    /\ pc = "replacing"
    /\ ret' = Append(ret, Raise("MatchError"))
    /\ defer' = FlagAfterTry(TRUE)
    /\ pc' = "idle"
    /\ UNCHANGED <<input, expr, last, rules, calls, fired>>
    /\ UNCHANGED regVars /\ UNCHANGED graphVars /\ UNCHANGED thrVars

\* replace_all: no rule matches any sub-expression, it returns
PassDone ==
    /\ pc = "replacing"
    /\ FirstMatch(defer, rules, expr) = <<>>
    /\ pc' = "test"
    /\ UNCHANGED <<defer, input, expr, last, rules, calls, ret, fired>>
    /\ UNCHANGED regVars /\ UNCHANGED graphVars /\ UNCHANGED thrVars

\* lines 640, 643-645: the loop test fails, finally, return expr
Return ==
    /\ pc = "test"
    /\ PyStr(expr) = PyStr(last)
    /\ defer' = FlagAfterTry(FALSE)
    /\ ret' = Append(ret, expr)
    /\ pc' = "idle"
    /\ UNCHANGED <<input, expr, last, rules, calls, fired>>
    /\ UNCHANGED regVars /\ UNCHANGED graphVars /\ UNCHANGED thrVars

\* no thread other than the caller above runs optimize
NoThreads == <<>>

GraphIdle ==
    /\ groot = None
    /\ stack = <<>>
    /\ gseen = {}
    /\ layers = <<>>
    /\ gpc = "idle"
    /\ graph = None
    /\ divres = None

OptIdle ==
    /\ defer = FALSE
    /\ pc = "idle"
    /\ input = None
    /\ expr = None
    /\ last = None
    /\ rules = <<>>
    /\ calls = 0
    /\ ret = <<>>
    /\ fired = <<>>

Init ==
    /\ input \in Inputs
    /\ seen = RegisterTree(input, EmptyRegistry).seen
    /\ replacement_rules = RegisterTree(input, EmptyRegistry).rules
    /\ called = KindsOf(input)
    /\ made = <<>>
    /\ asked = <<>>
    /\ defer = FALSE
    /\ pc = "idle"
    /\ expr = None
    /\ last = None
    /\ rules = <<>>
    /\ calls = 0
    /\ ret = <<>>
    /\ fired = <<>>
    /\ GraphIdle
    /\ th = NoThreads

Next ==
    \/ OptimizeCall
    \/ EnterPass
    \/ Replace
    \/ RewriteRaises
    \/ MatcherRaises
    \/ PassDone
    \/ Return

Spec == Init /\ [][Next]_vars

----------------------------------------------------------------------------
(* Lowering: divisions, npartitions, names and layers.  A divisions value  *)
(* is Tuple(seq), a name is <<prefix, tokens>> (tokenize is taken to be    *)
(* injective on the operand values it is given; an expression's token is   *)
(* its name), a layer is a function from keys <<name, i>> to tasks.        *)

\* The dataset a path names, as ReadParquet._plan finds it: its number of
\* parts (divisions are not calculated by default, so they are all None).
DatasetParts(path) == IF path = Str("p") THEN MaxPartitions ELSE 1

Nones(n) == [i \in 1..n |-> None]

IsBlockwise(cls) == cls \in BinopKinds \cup {"Filter", "Projection"}

ExprOperands(e) == SelectSeq(Operands(e), IsExpr)

RECURSIVE Divisions(_)
\* Blockwise._divisions, for the operand divisions ds: the first operand
\* whose divisions raise or differ from the first one's decides
BlockwiseDivisions(ds) ==
    IF ds = <<>> THEN Raise("IndexError")
    ELSE LET bad == {i \in 1..Len(ds) : Raised(ds[i]) \/ ds[i] # ds[1]}
         IN IF bad = {} THEN ds[1]
            ELSE IF Raised(ds[Least(bad)]) THEN ds[Least(bad)]
            ELSE Raise("AssertionError")

\* expr.divisions: tuple(self._divisions()), or what it raises
Divisions(e) ==
    CASE Kind(e) = "from_pandas" -> Tuple(Nones(e[2][2][2] + 1))
      [] Kind(e) = "ReadParquet" -> Tuple(Nones(DatasetParts(e[2][1]) + 1))
      [] Kind(e) = "Projection" -> Divisions(e[2][1])
      [] OTHER ->
            LET es == ExprOperands(e)
            IN BlockwiseDivisions([i \in 1..Len(es) |-> Divisions(es[i])])

\* expr.npartitions
NPartitions(e) ==
    IF Kind(e) = "from_pandas" THEN e[2][2]
    ELSE IF Raised(Divisions(e)) THEN Divisions(e)
    ELSE Num(Len(Divisions(e)[2]) - 1)

\* funcname(self.operation) for a blockwise kind, funcname(type(self)).lower()
\* for the others
NamePrefix(cls) ==
    CASE cls \in {"Filter", "Projection"} -> "getitem"
      [] cls = "Add" -> "add"
      [] cls = "Sub" -> "sub"
      [] cls = "Mul" -> "mul"
      [] cls = "Div" -> "truediv"
      [] cls = "LT" -> "lt"
      [] cls = "LE" -> "le"
      [] cls = "GT" -> "gt"
      [] cls = "GE" -> "ge"
      [] cls = "EQ" -> "eq"
      [] cls = "NE" -> "ne"
      [] cls = "from_pandas" -> "from_pandas"
      [] cls = "ReadParquet" -> "readparquet"

RECURSIVE Name(_)
\* expr._name
Name(e) ==
    <<NamePrefix(Kind(e)),
      [i \in 1..Len(Operands(e)) |->
          IF IsExpr(Operands(e)[i]) THEN Name(Operands(e)[i]) ELSE Operands(e)[i]]>>

Key(name, i) == <<name, i>>

\* a dictionary returned, as opposed to an exception raised
Dict(f) == <<"Dict", f>>

\* an operand as a task argument of partition i
Ref(v, i) == IF IsExpr(v) THEN <<"key", Name(v), i>> ELSE v

CeilDiv(a, b) == (a + b - 1) \div b

\* from_pandas._layer: one row slice per location pair
PandasLayer(e) ==
    LET rows == e[2][1][3]
        n == e[2][2][2]
    IN IF n = 0 THEN Raise("ZeroDivisionError")
       ELSE LET chunksize == CeilDiv(rows, n)
            IN IF chunksize = 0 THEN Raise("ValueError")
               ELSE LET count == CeilDiv(rows, chunksize)
                        locations == [k \in 1..(count + 1) |->
                                         IF k <= count THEN (k - 1) * chunksize
                                         ELSE rows]
                    IN Dict([key \in {Key(Name(e), i) : i \in 0..(count - 1)} |->
                                <<"iloc", e[2][1], locations[key[2] + 1],
                                  locations[key[2] + 2]>>])

\* The task of partition i of a node that has partitions
Task(e, i) ==
    CASE Kind(e) = "ReadParquet" -> <<"read", e[2][1], e[2][2], e[2][3], i>>
      [] Kind(e) = "Projection" ->
            <<"task", "getitem", <<<<"key", Name(e[2][1]), i>>, e[2][2]>>>>
      [] Kind(e) = "Filter" ->
            <<"apply", "getitem", [k \in 1..Len(e[2]) |-> Ref(e[2][k], i)]>>
      [] OTHER ->
            <<"task", NamePrefix(Kind(e)), <<Ref(e[2][1], i), Ref(e[2][2], i)>>>>

\* expr._layer(), or what it raises
Layer(e) ==
    IF Kind(e) = "from_pandas" THEN PandasLayer(e)
    ELSE IF Kind(e) = "ReadParquet"
         THEN Dict([key \in {Key(Name(e), i) :
                                  i \in 0..(DatasetParts(e[2][1]) - 1)} |->
                       Task(e, key[2])])
    ELSE IF Raised(NPartitions(e)) THEN NPartitions(e)
    ELSE Dict([key \in {Key(Name(e), i) : i \in 0..(NPartitions(e)[2] - 1)} |->
                  Task(e, key[2])])

\* toolz.merge of two dictionaries: the later one wins
Merge2(f, g) ==
    [k \in DOMAIN f \cup DOMAIN g |-> IF k \in DOMAIN g THEN g[k] ELSE f[k]]

RECURSIVE Merge(_)
\* toolz.merge(layers)
Merge(ls) ==
    IF ls = <<>> THEN <<>>
    ELSE IF Len(ls) = 1 THEN ls[1]
    ELSE Merge2(Merge(SubSeq(ls, 1, Len(ls) - 1)), ls[Len(ls)])

----------------------------------------------------------------------------
(* Node construction by user code: _ExprMeta.__call__ as a whole.          *)

MaxConstructions == 3   \* constructor calls made by user code

\* _ExprMeta.__call__(cls, *operands, **kwargs); extra: some keyword names
\* no parameter of cls.  Registration comes first, the assertion after it.
MetaCall(cls, operands, extra, reg) ==
    [reg |-> Register(cls, reg),
     out |-> IF extra THEN Raise("AssertionError") ELSE Node(cls, operands)]

\* the nodes built so far
Pool == {made[i] : i \in {k \in 1..Len(made) : ~Raised(made[k])}}

\* the nodes a next call may ask for: the sources, and what the operators
\* of an expression build from the nodes at hand
Candidates ==
    {FrameA, FrameB, ReadP}
        \cup {Binop(cls, l, r) : cls \in BinopKinds, l \in Pool, r \in Pool \cup {Num(2)}}
        \cup {Binop(cls, Num(2), r) : cls \in BinopKinds, r \in Pool}
        \cup {Filter(a, b) : a \in Pool, b \in Pool}
        \cup {Projection(a, ColX) : a \in Pool}

Construct ==
    /\ Len(made) < MaxConstructions
    /\ \E node \in Candidates, extra \in BOOLEAN :
          LET r == MetaCall(Kind(node), Operands(node), extra, Registry)
          IN /\ SetRegistry(r.reg, {Kind(node)})
             /\ made' = Append(made, r.out)
    /\ UNCHANGED asked
    /\ UNCHANGED optVars /\ UNCHANGED graphVars /\ UNCHANGED thrVars

InitReg ==
    /\ seen = {}
    /\ replacement_rules = <<>>
    /\ called = {}
    /\ made = <<>>
    /\ asked = <<>>
    /\ OptIdle
    /\ th = NoThreads
    /\ GraphIdle

NextReg == Construct

SpecReg == InitReg /\ [][NextReg]_vars

----------------------------------------------------------------------------
(* Expr.__dask_graph__ (core.py 267-284) and the divisions property        *)

\* A slip that never finds a name in seen.
NeverSeen(name, names) == FALSE

\* line 275: expr._name in seen
AlreadySeen(name, names) == name \in names

\* stack.pop() takes the last element
Top == stack[Len(stack)]
Popped == SubSeq(stack, 1, Len(stack) - 1)

\* lines 269-271
StartGraph ==
    /\ gpc = "idle"
    /\ stack' = <<groot>>
    /\ gseen' = {}
    /\ layers' = <<>>
    /\ gpc' = "walking"
    /\ UNCHANGED <<groot, graph, divres>>
    /\ UNCHANGED regVars /\ UNCHANGED optVars /\ UNCHANGED thrVars

\* lines 272-276: a node whose name is in seen is dropped
SkipSeen ==
    /\ gpc = "walking"
    /\ stack # <<>>
    /\ AlreadySeen(Name(Top), gseen)
    /\ stack' = Popped
    /\ UNCHANGED <<groot, gseen, layers, gpc, graph, divres>>
    /\ UNCHANGED regVars /\ UNCHANGED optVars /\ UNCHANGED thrVars

\* lines 272-282: a new name; its layer is taken and its expression
\* operands are pushed
Visit ==
    /\ gpc = "walking"
    /\ stack # <<>>
    /\ ~AlreadySeen(Name(Top), gseen)
    /\ ~Raised(Layer(Top))
    /\ gseen' = gseen \cup {Name(Top)}
    /\ layers' = Append(layers, Layer(Top)[2])
    /\ stack' = Popped \o ExprOperands(Top)
    /\ UNCHANGED <<groot, gpc, graph, divres>>
    /\ UNCHANGED regVars /\ UNCHANGED optVars /\ UNCHANGED thrVars

\* lines 272-279: expr._layer() raises and the exception leaves the method
LayerRaises ==
    /\ gpc = "walking"
    /\ stack # <<>>
    /\ ~AlreadySeen(Name(Top), gseen)
    /\ Raised(Layer(Top))
    /\ gseen' = gseen \cup {Name(Top)}
    /\ stack' = Popped
    /\ graph' = Layer(Top)
    /\ gpc' = "failed"
    /\ UNCHANGED <<groot, layers, divres>>
    /\ UNCHANGED regVars /\ UNCHANGED optVars /\ UNCHANGED thrVars

\* lines 272, 284: the stack is empty, the layers are merged
Finish ==
    /\ gpc = "walking"
    /\ stack = <<>>
    /\ graph' = Dict(Merge(layers))
    /\ gpc' = "done"
    /\ UNCHANGED <<groot, stack, gseen, layers, divres>>
    /\ UNCHANGED regVars /\ UNCHANGED optVars /\ UNCHANGED thrVars

\* lines 214-219: the divisions property
AccessDivisions ==
    /\ gpc = "idle"
    /\ divres = None
    /\ divres' = Divisions(groot)
    /\ UNCHANGED <<groot, stack, gseen, layers, gpc, graph>>
    /\ UNCHANGED regVars /\ UNCHANGED optVars /\ UNCHANGED thrVars

\* collections as user code builds them from three in-memory sources and a
\* parquet read; FrameA has one partition, the others MaxPartitions
FrameC == from_pandas(Frame("C", 10), MaxPartitions)
GraphSources == {FrameA, FrameB, FrameC, ReadP}

GraphLevel1 ==
    GraphSources
        \cup {Add(a, b) : a \in GraphSources, b \in GraphSources}
        \cup {Mul(Num(2), a) : a \in GraphSources}
        \cup {GetItem(a, ColX) : a \in GraphSources}
        \cup {Binop("GT", a, Num(2)) : a \in GraphSources}

GraphInputs ==
    GraphLevel1
        \cup {Add(a, b) : a \in GraphLevel1, b \in GraphLevel1}
        \cup {GetItem(a, c) : a \in GraphSources, c \in GraphLevel1}

InitGraph ==
    /\ groot \in GraphInputs
    /\ stack = <<>>
    /\ gseen = {}
    /\ layers = <<>>
    /\ gpc = "idle"
    /\ graph = None
    /\ divres = None
    /\ seen = RegisterTree(groot, EmptyRegistry).seen
    /\ replacement_rules = RegisterTree(groot, EmptyRegistry).rules
    /\ called = KindsOf(groot)
    /\ made = <<>>
    /\ asked = <<>>
    /\ OptIdle
    /\ th = NoThreads

NextGraph ==
    \/ StartGraph
    \/ SkipSeen
    \/ Visit
    \/ LayerRaises
    \/ Finish
    \/ AccessDivisions

SpecGraph == InitGraph /\ [][NextGraph]_vars

----------------------------------------------------------------------------
(* An in-memory source on its own: from_pandas (core.py 575-594) lowered   *)
(* by __dask_graph__, with the root keys of __dask_keys__ (286-287).       *)

MaxRows == 10       \* len(frame) is 1..MaxRows
MaxRequested == 4   \* the npartitions operand is 1..MaxRequested

\* lines 286-287: [(self._name, i) for i in range(self.npartitions)]
__dask_keys__(e) ==
    IF Raised(NPartitions(e)) THEN NPartitions(e)
    ELSE List([k \in 1..NPartitions(e)[2] |-> Key(Name(e), k - 1)])

SliceInputs ==
    {from_pandas(Frame("S", n), p) : n \in 1..MaxRows, p \in 1..MaxRequested}

InitSlice ==
    /\ groot \in SliceInputs
    /\ stack = <<>>
    /\ gseen = {}
    /\ layers = <<>>
    /\ gpc = "idle"
    /\ graph = None
    /\ divres = None
    /\ seen = RegisterTree(groot, EmptyRegistry).seen
    /\ replacement_rules = RegisterTree(groot, EmptyRegistry).rules
    /\ called = KindsOf(groot)
    /\ made = <<>>
    /\ asked = <<>>
    /\ OptIdle
    /\ th = NoThreads

NextSlice ==
    \/ StartGraph
    \/ Visit
    \/ Finish
    \/ AccessDivisions

SpecSlice == InitSlice /\ [][NextSlice]_vars

----------------------------------------------------------------------------
(* optimize (core.py 635-645) called from several threads of one process.  *)
(* Each thread has its own locals (expr, last, replace_all's copy of the   *)
(* catalog); _defer_to_matchpy (line 59), _ExprMeta.seen and               *)
(* replacement_rules are module globals and are shared.  The interpreter   *)
(* may switch threads between any two steps below.                         *)

MaxThreads == 2

Threads == 1..MaxThreads

\* a read whose filters operand is a tuple: the pushdown's list
\* concatenation raises
ReadT == ReadParquet(Str("p"), None, Tuple(<<OldTriple>>))

ThreadInputs ==
    {Add(FrameA, FrameA),
     Mul(Num(2), Mul(Num(3), FrameA)),
     Filter(ReadT, Binop("GT", Projection(ReadT, ColX), Num(2)))}

Local(arg) ==
    [pc |-> "idle", arg |-> arg, expr |-> None, last |-> None, rules |-> <<>>,
     out |-> None]

\* lines 635-639
ThreadCall(t) ==
    /\ th[t].pc = "idle"
    /\ defer' = TRUE
    /\ th' = [th EXCEPT ![t].pc = "test", ![t].expr = th[t].arg,
                        ![t].last = None]
    /\ UNCHANGED <<pc, input, expr, last, rules, calls, ret, fired>>
    /\ UNCHANGED regVars /\ UNCHANGED graphVars

\* lines 640-642: the loop test succeeds, replace_all copies the catalog
ThreadEnterPass(t) ==
    /\ th[t].pc = "test"
    /\ PyStr(th[t].expr) # PyStr(th[t].last)
    /\ th' = [th EXCEPT ![t].pc = "replacing", ![t].last = th[t].expr,
                        ![t].rules = replacement_rules]
    /\ UNCHANGED optVars /\ UNCHANGED regVars /\ UNCHANGED graphVars

\* replace_all: one replacement, matched under the flag as it is now
ThreadReplace(t) ==
    /\ th[t].pc = "replacing"
    /\ LET m == FirstMatch(defer, th[t].rules, th[t].expr)
       IN /\ m # <<>>
          /\ ~Raised(ReplaceOnce(th[t].expr, m))
          /\ th' = [th EXCEPT ![t].expr = ReplaceOnce(th[t].expr, m)]
          /\ SetRegistry(AfterReplace(ReplaceOnce(th[t].expr, m), Registry),
                         KindsOf(ReplaceOnce(th[t].expr, m)))
    /\ UNCHANGED <<made, asked>>
    /\ UNCHANGED optVars /\ UNCHANGED graphVars

\* replace_all: the rewrite function raises; the finally clause runs
ThreadRewriteRaises(t) ==
    /\ th[t].pc = "replacing"
    /\ LET m == FirstMatch(defer, th[t].rules, th[t].expr)
       IN /\ m # <<>>
          /\ Raised(ReplaceOnce(th[t].expr, m))
          /\ th' = [th EXCEPT ![t].pc = "done",
                              ![t].out = ReplaceOnce(th[t].expr, m)]
    /\ defer' = FlagAfterTry(TRUE)
    /\ UNCHANGED <<pc, input, expr, last, rules, calls, ret, fired>>
    /\ UNCHANGED regVars /\ UNCHANGED graphVars

\* the matcher itself raises; the finally clause runs
ThreadMatcherRaises(t) ==
    /\ th[t].pc = "replacing"
    /\ th' = [th EXCEPT ![t].pc = "done", ![t].out = Raise("MatchError")]
    /\ defer' = FlagAfterTry(TRUE)
    /\ UNCHANGED <<pc, input, expr, last, rules, calls, ret, fired>>
    /\ UNCHANGED regVars /\ UNCHANGED graphVars

\* replace_all: no rule matches any sub-expression, it returns
ThreadPassDone(t) ==
    /\ th[t].pc = "replacing"
    /\ FirstMatch(defer, th[t].rules, th[t].expr) = <<>>
    /\ th' = [th EXCEPT ![t].pc = "test"]
    /\ UNCHANGED optVars /\ UNCHANGED regVars /\ UNCHANGED graphVars

\* lines 640, 643-645: the loop test fails, finally, return expr
ThreadReturn(t) ==
    /\ th[t].pc = "test"
    /\ PyStr(th[t].expr) = PyStr(th[t].last)
    /\ th' = [th EXCEPT ![t].pc = "done", ![t].out = th[t].expr]
    /\ defer' = FlagAfterTry(FALSE)
    /\ UNCHANGED <<pc, input, expr, last, rules, calls, ret, fired>>
    /\ UNCHANGED regVars /\ UNCHANGED graphVars

RECURSIVE RegisterArgs(_, _)
\* the registry once the trees of the first n threads have been built
RegisterArgs(args, n) ==
    IF n = 0 THEN EmptyRegistry
    ELSE RegisterTree(args[n], RegisterArgs(args, n - 1))

InitThreads ==
    /\ \E args \in [Threads -> ThreadInputs] :
          /\ th = [t \in Threads |-> Local(args[t])]
          /\ seen = RegisterArgs(args, MaxThreads).seen
          /\ replacement_rules = RegisterArgs(args, MaxThreads).rules
          /\ called = UNION {KindsOf(args[t]) : t \in Threads}
    /\ made = <<>>
    /\ asked = <<>>
    /\ OptIdle
    /\ GraphIdle

NextThreads ==
    \E t \in Threads :
        \/ ThreadCall(t)
        \/ ThreadEnterPass(t)
        \/ ThreadReplace(t)
        \/ ThreadRewriteRaises(t)
        \/ ThreadMatcherRaises(t)
        \/ ThreadPassDone(t)
        \/ ThreadReturn(t)

SpecThreads == InitThreads /\ [][NextThreads]_vars

----------------------------------------------------------------------------
(* _ExprMeta.__call__ (core.py 42-56) with positional and keyword          *)
(* arguments.  kwargs is a function from keyword names to values.          *)

MaxArgs == 3    \* positional arguments of a call: 0..MaxArgs
MaxAsked == 1   \* calls made

\* _defaults of each class: a function from parameter names to values
\* (ReadParquet: of the three parameters carried here)
_defaults(cls) ==
    CASE cls = "from_pandas" -> [n \in {"npartitions"} |-> Num(1)]
      [] cls = "ReadParquet" -> [n \in {"columns", "filters"} |-> None]
      [] OTHER -> [n \in {} |-> None]

Filled(operands, kwargs) == <<"Filled", operands, kwargs>>

RECURSIVE Fill(_, _, _, _)
\* lines 51-52, from parameter k on.  The default is looked up before
\* kwargs.pop is called, so a parameter without a default raises KeyError
\* whether or not its keyword is given.
Fill(cls, k, operands, kwargs) ==
    IF k > Len(_parameters(cls)) THEN Filled(operands, kwargs)
    ELSE LET parameter == _parameters(cls)[k]
         IN IF parameter \notin DOMAIN _defaults(cls) THEN Raise("KeyError")
            ELSE Fill(cls, k + 1,
                      Append(operands,
                             IF parameter \in DOMAIN kwargs THEN kwargs[parameter]
                             ELSE _defaults(cls)[parameter]),
                      [n \in DOMAIN kwargs \ {parameter} |-> kwargs[n]])

\* line 56: matchpy builds the operation and checks the operand count
\* against the class's arity: binary for Binop (line 453), variadic (the
\* Operation default) for every other class
OperationCall(cls, operands) ==
    IF cls \in BinopKinds /\ Len(operands) # 2 THEN Raise("ValueError")
    ELSE Node(cls, operands)

\* lines 49-56: the node, or what the call raises
__call__(cls, args, kwargs) ==
    LET filled == Fill(cls, Len(args) + 1, args, kwargs)
    IN IF Raised(filled) THEN filled
       ELSE IF DOMAIN filled[3] # {} THEN Raise("AssertionError")
       ELSE OperationCall(cls, filled[2])

\* the first n of a list of distinct positional values
Positional(n) == [k \in 1..n |-> IF k = 1 THEN FrameA ELSE Num(k)]

CallKinds == {"from_pandas", "ReadParquet", "Filter", "Projection", "Add"}

\* keyword names a caller may pass to cls: its parameters and a stray one
KeywordNames(cls) ==
    {_parameters(cls)[k] : k \in 1..Len(_parameters(cls))} \cup {"bogus"}

\* each keyword carries a value that tells its name
Keywords(names) == [n \in names |-> Str(n)]

\* one call by user code: registration (lines 44-47), then lines 49-56
CallMeta ==
    /\ Len(asked) < MaxAsked
    /\ \E cls \in CallKinds, n \in 0..MaxArgs :
          \E names \in SUBSET KeywordNames(cls) :
             /\ SetRegistry(Register(cls, Registry), {cls})
             /\ asked' = Append(asked, <<cls, Positional(n), Keywords(names)>>)
             /\ made' = Append(made, __call__(cls, Positional(n), Keywords(names)))
    /\ UNCHANGED optVars /\ UNCHANGED graphVars /\ UNCHANGED thrVars

InitCall == InitReg

NextCall == CallMeta

SpecCall == InitCall /\ [][NextCall]_vars

----------------------------------------------------------------------------
(* __dask_graph__ over collections whose Filter and Projection nodes are   *)
(* built by the operators or by calling the classes (core.py 387-422).     *)

ItemFrames == {FrameA, FrameB, ReadP}

\* what is put between the brackets: a predicate or a column name
ItemOperands == {Binop("GT", a, Num(2)) : a \in ItemFrames} \cup {ColX}

ItemNodes ==
    {Filter(a, b) : a \in ItemFrames, b \in ItemOperands}
        \cup {Projection(a, b) : a \in ItemFrames, b \in ItemOperands}

IdentityInputs == ItemNodes \cup {Add(x, y) : x \in ItemNodes, y \in ItemNodes}

InitIdentity ==
    /\ groot \in IdentityInputs
    /\ stack = <<>>
    /\ gseen = {}
    /\ layers = <<>>
    /\ gpc = "idle"
    /\ graph = None
    /\ divres = None
    /\ seen = RegisterTree(groot, EmptyRegistry).seen
    /\ replacement_rules = RegisterTree(groot, EmptyRegistry).rules
    /\ called = KindsOf(groot)
    /\ made = <<>>
    /\ asked = <<>>
    /\ th = NoThreads
    /\ OptIdle

SpecIdentity == InitIdentity /\ [][NextGraph]_vars

----------------------------------------------------------------------------
(* Vocabulary of the properties *)

\* the i-th optimize call returned a tree
Finished(i) == Len(ret) >= i /\ ~Raised(ret[i])

SubExpressions(e) == {At(e, Preorder(e)[k]) : k \in 1..Len(Preorder(e))}

\* the column names a columns operand selects, whatever its form
ColumnNames(b) ==
    IF b[1] = "Str" THEN <<b>>
    ELSE IF b[1] \in {"List", "Tuple"} THEN b[2]
    ELSE b

\* the symbol of a comparison and its mirror image
Symbol(op) ==
    CASE op = "LT" -> "<"
      [] op = "LE" -> "<="
      [] op = "GT" -> ">"
      [] op = "GE" -> ">="
      [] op = "EQ" -> "=="
      [] op = "NE" -> "!="

Mirror(sym) ==
    CASE sym = "<" -> ">"
      [] sym = "<=" -> ">="
      [] sym = ">" -> "<"
      [] sym = ">=" -> "<="
      [] OTHER -> sym

\* the triple (column, symbol, literal) a comparison between a column of a
\* read and a literal stands for
Triple(cmp) ==
    LET l == cmp[2][1]
        r == cmp[2][2]
    IN IF IsNumber(r) THEN Tuple(<<l[2][2], Str(Symbol(cmp[1])), r>>)
       ELSE Tuple(<<r[2][2], Str(Mirror(Symbol(cmp[1]))), l>>)

PushdownRules == {"RPPred1", "RPPred2", "RPPred3", "RPPred4"}

\* the filter list a filters operand stands for, <<>> when unset
FilterList(c) == IF c = None THEN <<>> ELSE c[2]

----------------------------------------------------------------------------
(* C1 *)

\* C1: whenever no optimize call is in progress the equality flag is idle;
\* while a call is in progress it is in matching mode; a call that ends
\* because the matcher or a rewrite function raised leaves the flag idle and
\* returns no tree.
C1_FlagIdleOutsideOptimize ==
    /\ pc = "idle" => defer = FALSE
    /\ pc # "idle" => defer = TRUE
    /\ \A i \in 1..Len(ret) : Raised(ret[i]) \/ IsExpr(ret[i])

\* the rewrite function of a pushdown rule has raised and the caller is
\* back in control
C1_RewriteRaisedWitness ==
    /\ pc = "idle"
    /\ calls = 1
    /\ Len(ret) = 1
    /\ ret[1] = Raise("TypeError")
    /\ fired # <<>>
    /\ fired[1][1] \in PushdownRules

----------------------------------------------------------------------------
(* C2 *)

\* C2: the tree an optimize call returns is a fixed point: no rule of the
\* catalog matches any of its sub-expressions, and a second optimize call on
\* it returns the identical tree.
C2_OptimizeIdempotent ==
    /\ \A i \in 1..Len(ret) :
          (~Raised(ret[i]) /\ pc = "idle") =>
              \A e \in SubExpressions(ret[i]) :
                  \A k \in 1..Len(replacement_rules) :
                      ~Matches(TRUE, replacement_rules[k], e)
    /\ (Finished(1) /\ Finished(2)) => ret[2] = ret[1]

\* a second call has returned on a tree that the first call had rewritten
C2_SecondCallWitness ==
    /\ Finished(1)
    /\ Finished(2)
    /\ ret[1] # input
    /\ pc = "idle"

----------------------------------------------------------------------------
(* C3 *)

\* C3: for a read with default columns and filters, optimize of
\* read[read[x] op v][cols] with cols a list of columns is the single node
\* ReadParquet(path, columns = cols, filters = [(x, symbol of op, v)]); no
\* Filter and no Projection is left.
C3_ReadPushdownEndToEnd ==
    \A r \in {ReadP, ReadQ}, op \in CompareKinds, x \in {ColX, ColY},
       v \in Nums, cols \in ColumnLists :
        (/\ input = GetItem(GetItem(r, UserCompare(op, GetItem(r, x), v)), cols)
         /\ Finished(1))
        => /\ ret[1] = Node("ReadParquet",
                            <<r[2][1], cols,
                              List(<<Tuple(<<x, Str(Symbol(op)), v>>)>>)>>)
           /\ \A e \in SubExpressions(ret[1]) : e[1] \notin {"Filter", "Projection"}

\* the call has returned for read[read["x"] > 2][["y"]]
C3_PushdownDoneWitness ==
    /\ input = GetItem(GetItem(ReadP, Binop("GT", GetItem(ReadP, ColX), Num(2))),
                       List(<<ColY>>))
    /\ Finished(1)
    /\ IsRead(ret[1])
    /\ ret[1][2][3] # None

----------------------------------------------------------------------------
(* C4 *)

\* C4: each predicate-pushdown replacement turns Filter(read, cmp), cmp a
\* comparison of a column of a read of the same path with a literal, into a
\* read of the same path and the same columns whose filters are the previous
\* filters (none when unset) in their order followed by the one triple
\* (column, symbol, literal), the symbol mirrored when the literal is the
\* left operand; two nested filters leave both triples after the old ones.
C4_PredicatePushdownStep ==
    /\ (/\ fired # <<>>
        /\ fired[1][1] \in PushdownRules
        /\ fired[2][2][1][2][3][1] \in {"None", "List"}
        /\ IsNumber(fired[2][2][2][2][1]) \/ IsNumber(fired[2][2][2][2][2]))
       => LET read == fired[2][2][1]
              cmp == fired[2][2][2]
              new == fired[3]
          IN /\ IsRead(new)
             /\ new[2][1] = read[2][1]
             /\ ColumnNames(new[2][2]) = ColumnNames(read[2][2])
             /\ new[2][3] = List(FilterList(read[2][3]) \o <<Triple(cmp)>>)
    /\ \A f \in NestedFilterInputs :
          (input = f /\ Finished(1))
          => /\ IsRead(ret[1])
             /\ ret[1][2][3] = List(FilterList(f[2][1][2][1][2][3])
                                      \o <<Triple(f[2][1][2][2]), Triple(f[2][2])>>)

\* a pushdown has fired on a comparison with the literal on the left of <,
\* over a read that already had a filter
C4_FlippedAppendWitness ==
    /\ fired # <<>>
    /\ fired[1] = <<"RPPred2", "LT">>
    /\ fired[2][2][1][2][3] = List(<<OldTriple>>)
    /\ IsNumber(fired[2][2][2][2][1])
    /\ IsRead(fired[3])
    /\ pc = "replacing"

----------------------------------------------------------------------------
(* C6 *)

\* the first call has just returned a tree
FirstReturned == Len(ret) = 1 /\ pc = "idle" /\ Finished(1)

\* C6: optimize(Filter(df, cond)[cols]) is the tree optimize(df[cols][cond])
\* returns, and each firing of the reorder rule turns
\* Projection(Filter(df, cond), cols) into Filter(Projection(df, cols), cond).
C6_FilterProjectionReorder ==
    /\ (/\ FirstReturned
        /\ Kind(input) = "Projection"
        /\ Kind(input[2][1]) = "Filter")
       => LET df == input[2][1][2][1]
              cond == input[2][1][2][2]
              cols == input[2][2]
          IN ret[1] = Optimize(GetItem(GetItem(df, cols), cond), EmptyRegistry)
    /\ (fired # <<>> /\ fired[1][1] = "FilterReorder")
       => /\ Kind(fired[2]) = "Projection"
          /\ Kind(fired[2][2][1]) = "Filter"
          /\ fired[3] = Node("Filter",
                             <<Node("Projection",
                                    <<fired[2][2][1][2][1], fired[2][2][2]>>),
                               fired[2][2][1][2][2]>>)

\* the reorder rule has fired on a filter over an in-memory source and the
\* call has returned
C6_ReorderFiredWitness ==
    /\ FirstReturned
    /\ input \in ReorderInputs
    /\ input[2][1][2][1] = FrameB
    /\ fired # <<>>
    /\ Kind(ret[1]) = "Filter"

----------------------------------------------------------------------------
(* C7 *)

IsNestedMul(e) == Kind(e) = "Mul" /\ Kind(e[2][2]) = "Mul"

\* every firing of the fold rule is on a * (b * c) with a and b numbers and
\* yields (a*b) * c
FoldFiresOnLiterals ==
    (fired # <<>> /\ fired[1][1] = "MulFold")
    => /\ IsNestedMul(fired[2])
       /\ IsNumber(fired[2][2][1])
       /\ IsNumber(fired[2][2][2][2][1])
       /\ fired[3] = Node("Mul", <<Num(fired[2][2][1][2] * fired[2][2][2][2][1][2]),
                                   fired[2][2][2][2][2]>>)

\* optimize(a * (b * c)) = optimize((a*b) * c) for numbers a and b
FoldOfLiterals ==
    (/\ FirstReturned
     /\ IsNestedMul(input)
     /\ IsNumber(input[2][1])
     /\ IsNumber(input[2][2][2][1]))
    => ret[1] = Optimize(Mul(Num(input[2][1][2] * input[2][2][2][1][2]),
                             input[2][2][2][2]),
                         EmptyRegistry)

\* C7 as stated: the fold of literals, and X * (n * Y) with X and Y
\* expressions is returned unchanged.
C7_AsStated ==
    /\ FoldOfLiterals
    /\ (/\ FirstReturned
        /\ IsNestedMul(input)
        /\ IsExpr(input[2][1])
        /\ IsNumber(input[2][2][2][1])
        /\ IsExpr(input[2][2][2][2]))
       => ret[1] = input

\* C7, amended: optimize(a * (b * c)) = optimize((a*b) * c) for numbers a and
\* b; the fold fires on numbers only, so for an expression X the outer
\* multiply of X * (b * c) is kept and the result is
\* optimize(X) * optimize(b * c), the input itself when X and b * c are
\* already fixed points.
C7_ConstantFolding ==
    /\ FoldOfLiterals
    /\ FoldFiresOnLiterals
    /\ (/\ FirstReturned
        /\ IsNestedMul(input)
        /\ IsExpr(input[2][1]))
       => LET X == Optimize(input[2][1], EmptyRegistry)
              R == Optimize(input[2][2], EmptyRegistry)
          IN /\ ret[1] = Node("Mul", <<X, R>>)
             /\ (X = input[2][1] /\ R = input[2][2]) => ret[1] = input

\* X * (n * Y), X and Y expressions, has been optimized to a different tree
C7_ChangedWitness ==
    /\ FirstReturned
    /\ IsNestedMul(input)
    /\ IsExpr(input[2][1])
    /\ IsNumber(input[2][2][2][1])
    /\ IsExpr(input[2][2][2][2])
    /\ ret[1] # input

----------------------------------------------------------------------------
(* C8 *)

\* C8: optimize(X + X) is the tree optimize(2 * X) returns, and every firing
\* of the self-addition rule is on an Add whose two operands are the same
\* sub-expression, which it turns into 2 * x.
C8_SelfAddition ==
    /\ (/\ FirstReturned
        /\ Kind(input) = "Add"
        /\ input[2][1] = input[2][2])
       => ret[1] = Optimize(Mul(Num(2), input[2][1]), EmptyRegistry)
    /\ (fired # <<>> /\ fired[1][1] = "SelfAdd")
       => /\ Kind(fired[2]) = "Add"
          /\ fired[2][2][1] = fired[2][2][2]
          /\ fired[3] = Node("Mul", <<Num(2), fired[2][2][1]>>)

\* X + X with X itself a sum has been optimized
C8_SelfAddWitness ==
    /\ FirstReturned
    /\ Kind(input) = "Add"
    /\ Kind(input[2][1]) = "Add"
    /\ input[2][1] = input[2][2]
    /\ fired # <<>>
    /\ fired[1][1] = "SelfAdd"

----------------------------------------------------------------------------
(* C5 *)

\* the name whose tasks a layer holds
LayerName(l) == (CHOOSE k \in DOMAIN l : TRUE)[1]

ReachableNames == {Name(n) : n \in SubExpressions(groot)}

\* every layer taken so far is the layer of a reachable node, and no name
\* has given two of them
LayersTakenOnce ==
    /\ \A i \in 1..Len(layers) :
          \E n \in SubExpressions(groot) :
              /\ LayerName(layers[i]) = Name(n)
              /\ Dict(layers[i]) = Layer(n)
    /\ \A i, j \in 1..Len(layers) :
          LayerName(layers[i]) = LayerName(layers[j]) => i = j
    /\ {LayerName(layers[i]) : i \in 1..Len(layers)} \subseteq gseen

\* the returned graph holds exactly the tasks of the reachable nodes
GraphIsUnion ==
    /\ \A n \in SubExpressions(groot) : ~Raised(Layer(n))
    /\ {LayerName(layers[i]) : i \in 1..Len(layers)} = ReachableNames
    /\ Len(layers) = Cardinality(ReachableNames)
    /\ graph[1] = "Dict"
    /\ DOMAIN graph[2] = UNION {DOMAIN Layer(n)[2] : n \in SubExpressions(groot)}
    /\ \A n \in SubExpressions(groot) :
          \A k \in DOMAIN Layer(n)[2] : graph[2][k] = Layer(n)[2][k]

\* what is left to do: names not yet seen, and stack entries
TraversalMeasure == 3 * Cardinality(ReachableNames \ gseen) + Len(stack)

\* C5: the traversal takes the layer of each distinct name reachable from
\* the root exactly once, however many parents reference the node; every
\* step of the loop leaves less to do, so it ends on every finite DAG; and
\* the graph it returns is exactly the union of the layers of the reachable
\* nodes.
C5_GraphDedup ==
    /\ [](gpc \in {"walking", "done"} => LayersTakenOnce)
    /\ [](gpc = "done" => GraphIsUnion)
    /\ [][(gpc = "walking" /\ gpc' = "walking")
            => TraversalMeasure' < TraversalMeasure]_vars

\* the graph of 2 * b + b has been returned: b has two parents and one layer
C5_SharedNodeWitness ==
    /\ gpc = "done"
    /\ groot = Add(Mul(Num(2), FrameB), FrameB)
    /\ Len(layers) = 3
    /\ Cardinality(DOMAIN graph[2]) = 3 * MaxPartitions

----------------------------------------------------------------------------
(* C9 *)

\* the rules each kind provides
ExpectedRules(k) ==
    CASE k = "Filter" -> {<<"FilterReorder", "Filter">>}
      [] k = "Add" -> {<<"SelfAdd", "Add">>, <<"BinopProj", "Add">>}
      [] k = "Mul" -> {<<"MulFold", "Mul">>, <<"BinopProj", "Mul">>}
      [] k \in {"Sub", "Div"} \cup CompareKinds -> {<<"BinopProj", k>>}
      [] k = "ReadParquet" ->
            {<<"RPCol", "ReadParquet">>}
                \cup {<<n, op>> : n \in PushdownRules, op \in CompareKinds}
      [] OTHER -> {}

\* the kinds whose constructor runs while the patterns of kind k are built
ConstructedBy(k) ==
    CASE k = "ReadParquet" -> {"Projection", "Filter"} \cup CompareKinds
      [] k \in {"Filter"} \cup BinopKinds -> {"Projection"}
      [] OTHER -> {}

\* the kinds constructed so far, by user code or inside a rule provider
Entered == called \cup UNION {ConstructedBy(k) : k \in called}

RuleCount(r) ==
    Cardinality({i \in 1..Len(replacement_rules) : replacement_rules[i] = r})

CatalogExactlyOnce ==
    /\ \A k \in Kinds : \A r \in ExpectedRules(k) :
          RuleCount(r) = IF k \in Entered THEN 1 ELSE 0
    /\ \A i \in 1..Len(replacement_rules) :
          \E k \in Kinds : replacement_rules[i] \in ExpectedRules(k)

CatalogAppendOnly ==
    /\ Len(replacement_rules') >= Len(replacement_rules)
    /\ SubSeq(replacement_rules', 1, Len(replacement_rules)) = replacement_rules

\* C9: after any sequence of constructor calls, failed ones, repeated ones
\* and the ones nested in rule providers included, the catalog holds each
\* rule of every kind constructed so far exactly once and no rule of any
\* other kind; a step only ever appends to the catalog.
C9_RegistrationExactlyOnce ==
    /\ []CatalogExactlyOnce
    /\ [][CatalogAppendOnly]_vars

\* a call has failed, a read and then a filter of it have been built: the
\* filter's kind had been constructed inside the read's rule provider
C9_FailedRepeatedNestedWitness ==
    /\ Len(made) = 3
    /\ Raised(made[1])
    /\ made[2] = ReadP
    /\ made[3] = Filter(ReadP, ReadP)
    /\ called = {"ReadParquet", "Filter"}

----------------------------------------------------------------------------
(* C10 *)

\* C10 as stated: every blockwise node that has been constructed has
\* expression operands of pairwise equal divisions, which are its own.
C10_AsStated ==
    \A i \in 1..Len(made) :
        (/\ ~Raised(made[i])
         /\ IsBlockwise(Kind(made[i]))
         /\ ExprOperands(made[i]) # <<>>)
        => LET es == ExprOperands(made[i])
           IN /\ \A a, b \in 1..Len(es) : Divisions(es[a]) = Divisions(es[b])
              /\ Divisions(made[i]) = Divisions(es[1])

----------------------------------------------------------------------------
(* C11 *)

Min(a, b) == IF a <= b THEN a ELSE b

\* the set of the root keys of a collection
RootKeys(e) == {__dask_keys__(e)[2][k] : k \in 1..Len(__dask_keys__(e)[2])}

\* C11 as stated: once the graph of a source of n rows requested with p
\* partitions is built, it holds exactly the keys 0..p-1, which are the
\* root keys; task i slices rows [i*c, min((i+1)*c, n)) with
\* c = ceil(n/p); the divisions are p+1 unknown placeholders.
C11_AsStated ==
    (gpc = "done" /\ divres # None) =>
        LET n == groot[2][1][3]
            p == groot[2][2][2]
            c == CeilDiv(n, p)
        IN /\ DOMAIN graph[2] = {Key(Name(groot), i) : i \in 0..(p - 1)}
           /\ DOMAIN graph[2] = RootKeys(groot)
           /\ \A i \in 0..(p - 1) :
                 graph[2][Key(Name(groot), i)]
                     = <<"iloc", groot[2][1], i * c, Min((i + 1) * c, n)>>
           /\ divres = Tuple(Nones(p + 1))

----------------------------------------------------------------------------
(* C12 *)

\* thread t is inside replace_all, where the matcher compares expressions
Matching(t) == th[t].pc = "replacing"

\* C12 as stated: whenever a call is in its matching phase, equality is
\* in structural-match mode, whatever the other calls have done meanwhile.
C12_AsStated == \A t \in DOMAIN th : Matching(t) => defer = TRUE

----------------------------------------------------------------------------
(* C13 *)

\* position of a keyword name among the parameters of cls, 0 if it is none
ParameterIndex(cls, name) ==
    LET hits == {k \in 1..Len(_parameters(cls)) : _parameters(cls)[k] = name}
    IN IF hits = {} THEN 0 ELSE Least(hits)

\* the keyword is no parameter, or names one that a positional value binds
Unexpected(cls, args, name) ==
    ParameterIndex(cls, name) <= Len(args)

\* the operand parameter k must get
Bound(cls, args, kwargs, k) ==
    IF k <= Len(args) THEN args[k]
    ELSE IF _parameters(cls)[k] \in DOMAIN kwargs THEN kwargs[_parameters(cls)[k]]
    ELSE _defaults(cls)[_parameters(cls)[k]]

\* C13 as stated: a call that yields a node yields one with exactly one
\* operand per declared parameter, in declared order, bound positionally,
\* by keyword or by default; a call with an unexpected keyword yields no
\* node.
C13_AsStated ==
    \A i \in 1..Len(asked) :
        LET cls == asked[i][1]
            args == asked[i][2]
            kwargs == asked[i][3]
        IN /\ ~Raised(made[i]) =>
                /\ Kind(made[i]) = cls
                /\ Len(Operands(made[i])) = Len(_parameters(cls))
                /\ \A k \in 1..Len(_parameters(cls)) :
                      Operands(made[i])[k] = Bound(cls, args, kwargs, k)
           /\ (\E name \in DOMAIN kwargs : Unexpected(cls, args, name))
                 => Raised(made[i])

----------------------------------------------------------------------------
(* C14 *)

RECURSIVE Weight(_)
\* A weight that every rule of the catalog lowers, wherever in a tree it
\* fires: a source weighs 1, a value that is no expression 0, a sum
\* l + r + 2, any other binary operator and a filter l + r + 1, and a
\* projection twice its frame.
Weight(v) ==
    IF ~IsExpr(v) THEN 0
    ELSE CASE Kind(v) \in IOKinds -> 1
           [] Kind(v) = "Projection" -> 2 * Weight(v[2][1])
           [] Kind(v) = "Add" -> Weight(v[2][1]) + Weight(v[2][2]) + 2
           [] OTHER -> Weight(v[2][1]) + Weight(v[2][2]) + 1

\* a step of replace_all that replaces a sub-expression
Rewrites == pc = "replacing" /\ pc' = "replacing"

RewriteLowersWeight == Rewrites => Weight(expr') < Weight(expr)

\* no rule of the catalog fires on a tree that a call has returned
ReturnedAtFixedPoint ==
    \A i \in 1..Len(ret) :
        ~Raised(ret[i]) => FirstMatch(TRUE, replacement_rules, ret[i]) = <<>>

\* 1 while the loop test of optimize will succeed, else 0
Pending(e, lst) == IF PyStr(e) # PyStr(lst) THEN 1 ELSE 0

\* A natural number that every step of a running call lowers: a rewrite
\* lowers the weight, entering a pass uses up the pending difference
\* between expr and last, and the end of a pass leaves replace_all.  A
\* running call is never without a next step (the loop test either
\* succeeds or fails; a pass either finds a match or does not), so a call
\* ends after at most CallMeasure steps.
CallMeasure(at, e, lst) ==
    IF at = "idle" THEN 0
    ELSE 6 * Weight(e) + 3 * Pending(e, lst)
            + (IF at = "replacing" THEN 2 ELSE 1)

RunningLowersMeasure ==
    pc # "idle" => CallMeasure(pc', expr', last') < CallMeasure(pc, expr, last)

\* C14: every rewrite step lowers the weight of the tree (so no sequence
\* of rules goes on forever or comes back to an earlier tree), every step
\* of a call that has been entered lowers a natural number (so the call
\* ends after finitely many steps), and a tree that is returned is one on
\* which no rule fires.
C14_Termination ==
    /\ [][RewriteLowersWeight]_vars
    /\ [][RunningLowersMeasure]_vars
    /\ []ReturnedAtFixedPoint

\* a first call has returned, after rewriting, a tree on which no rule fires
C14_RewrittenAndReturnedWitness ==
    /\ calls = 1
    /\ Finished(1)
    /\ Weight(ret[1]) + 2 <= Weight(input)
    /\ FirstMatch(TRUE, replacement_rules, ret[1]) = <<>>

----------------------------------------------------------------------------
(* C15 *)

\* the nodes of the collection whose graph is built
NodesOf(e) == SubExpressions(e)

\* every task of node x is in the compiled graph, as x describes it
TasksKept(x) ==
    ~Raised(Layer(x)) =>
        \A key \in DOMAIN Layer(x)[2] :
            /\ key \in DOMAIN graph[2]
            /\ graph[2][key] = Layer(x)[2][key]

\* C15 as stated: once a graph is compiled, two nodes of the collection
\* with the same name have the same kind and the same operands, and the
\* graph holds every task of every node as that node describes it.
C15_AsStated ==
    (gpc = "done") =>
        /\ \A x, y \in NodesOf(groot) :
              Name(x) = Name(y) => (Kind(x) = Kind(y) /\ Operands(x) = Operands(y))
        /\ \A x \in NodesOf(groot) : TasksKept(x)

=============================================================================
